---- MODULE Spec2Model ----
(***************************************************************************)
(* The schema migration engine of customable-corporate-site-api:          *)
(* internal/database/migrations/migration.go (Migrator: Register,         *)
(* Initialize, Up, Down, Status, Reset) over a relational store.          *)
(*                                                                         *)
(* The store is the `migrations` table (the Ledger: whether it exists and *)
(* its rows) plus the schema/data the steps' actions produce.  A step's   *)
(* forward action adds its effect to the store, its backward action       *)
(* removes it; either can fail, before or after having touched the store. *)
(* A ledger row is identified by its version: the column is unique, so     *)
(* the primary key that Delete uses and the version name the same row.    *)
(* time.Now() is a clock that never runs backwards and may return the     *)
(* same value twice (timestamp granularity); `clock` is the value it      *)
(* returned last.                                                         *)
(***************************************************************************)
EXTENDS Integers, Sequences, FiniteSets, TLC

\* ---- bounds ----
MaxClock == 2
MaxOps == 3
TicksPerSecond == 2

\* the step lists a run registers: none, one, several, in and out of version
\* order, and lists that break the caller's contract of distinct versions
Registrations ==
    {<<>>, <<1>>, <<1, 2>>, <<2, 1>>, <<1, 2, 3>>, <<3, 1, 2>>, <<1, 1>>, <<1, 2, 1>>}

\* the versions a ledger row left by an earlier run can carry
Versions == {1, 2, 3}

VARIABLES
    migrations,   \* Migrator.migrations: the registered steps, in registration order
    tableExists,  \* whether the migrations table exists in the store
    rows,         \* the rows of the migrations table
    store,        \* versions whose forward effect (schema/data) is in the store
    clock,        \* the last value time.Now() returned
    pc,           \* "idle", "up" while the loop of Up runs, "down" between the query and the transaction of Down
    executedMap,  \* Up's executedMap (versions read before the loop)
    idx,          \* Up's loop position in m.migrations
    cur,          \* the record of the running Up (NoOp when none runs)
    last,         \* the operation that returned last: its result and what it invoked
    prev,         \* the result of the operation that returned before `last`
    ops,          \* number of operations started
    other,        \* the Up of a second process on the same store, while suspended
    flags,        \* cmd/migrate: the flags on the command line
    stdin,        \* cmd/migrate: the line typed at the reset prompt
    response,     \* cmd/migrate: what Scanln stored in `response`
    phase,        \* cmd/migrate: position of the process in main
    exitCode,     \* cmd/migrate: exit code of the process that exited last
    start,        \* cmd/migrate: ops and the store when the process started
    schema,       \* the users table of the shipped steps: its indexes, the admin row
    users,        \* API: the state of each user's row
    issued,       \* API: the tokens the service has signed
    req           \* API: the last request and how it was answered

vars == <<migrations, tableExists, rows, store, clock, pc, executedMap, idx,
          cur, last, prev, ops, other, flags, stdin, response, phase,
          exitCode, start, schema, users, issued, req>>

\* the variables of one Migrator call in progress
ctx == <<pc, executedMap, idx, cur>>

\* what the engine does not look at
ext == <<schema, users, issued, req>>

\* the variables of the API server
api == <<users, issued, req>>

\* the variables of the cmd/migrate process
cli == <<flags, stdin, response, phase, exitCode, start>>

\* ---- data ----

\* type Migration struct { Version; ExecutedAt } (ID and Description carry no behaviour)
Migration(v, t) == [Version |-> v, ExecutedAt |-> t]

\* type MigrationStep struct { Version; Up; Down }
MigrationStep(v) == [Version |-> v]

\* outcomes of a forward or backward action: success, failure before any
\* effect, failure after the effect was made inside the transaction
ActionOutcomes == {"ok", "fail_clean", "fail_dirty"}
\* outcomes of a ledger write that does not hit a constraint
WriteOutcomes == {"ok", "fail"}

DB == [rows |-> rows, store |-> store]
Snapshot == [tableExists |-> tableExists, rows |-> rows, store |-> store]

\* The record kept of one operation: its name, whether it returned an error,
\* the step and statement that failed (0, "none" if nothing did), the actions
\* it invoked in order, the transactions it opened, the store it started
\* from, the store before the transaction that failed, the version of the
\* row Down selected, and the lines Status printed.
NoDB == [rows |-> {}, store |-> {}]
NoOp == [op |-> "None", err |-> FALSE, failIdx |-> 0, failKind |-> "none",
         calls |-> <<>>, txs |-> 0,
         before |-> [tableExists |-> FALSE, rows |-> {}, store |-> {}],
         txBefore |-> NoDB, selected |-> 0, report |-> <<>>]
Brief(r) == [op |-> r.op, err |-> r.err, failIdx |-> r.failIdx]

\* ---- the store's transaction and the statements run in it ----

\* migration.Up(tx): the forward action of the step with version v
StepUp(db, v, out) ==
    [db  |-> IF out = "fail_clean" THEN db ELSE [db EXCEPT !.store = @ \cup {v}],
     err |-> out # "ok"]

\* migrationStep.Down(tx): the backward action of the step with version v
StepDown(db, v, out) ==
    [db  |-> IF out = "fail_clean" THEN db ELSE [db EXCEPT !.store = @ \ {v}],
     err |-> out # "ok"]

\* (an insert on a table without the unique index on version)
CreateNoUnique(db, rec, out) ==
    IF out = "fail"
    THEN [db |-> db, err |-> TRUE]
    ELSE [db |-> [db EXCEPT !.rows = @ \cup {rec}], err |-> FALSE]

\* tx.Create(&newMigration): Version is `gorm:"unique;not null"`
Create(db, rec, out) ==
    IF out = "fail" \/ \E r \in db.rows : r.Version = rec.Version
    THEN [db |-> db, err |-> TRUE]
    ELSE [db |-> [db EXCEPT !.rows = @ \cup {rec}], err |-> FALSE]

\* (a Delete with no condition: every row of the table goes)
DeleteAllRows(db, rec, out) ==
    IF out = "fail"
    THEN [db |-> db, err |-> TRUE]
    ELSE [db |-> [db EXCEPT !.rows = {}], err |-> FALSE]

\* tx.Delete(&lastMigration): deleting a row that is gone is not an error
Delete(db, rec, out) ==
    IF out = "fail"
    THEN [db |-> db, err |-> TRUE]
    ELSE [db |-> [db EXCEPT !.rows = {r \in @ : r.Version # rec.Version}], err |-> FALSE]

\* (a Transaction that keeps the changes of a function that failed)
TransactionNoRollback(db, res) == res.db

\* m.db.Transaction(fn): commit fn's changes if it returned nil, roll back otherwise
Transaction(db, res) == IF res.err THEN db ELSE res.db

\* (a closure that runs the forward action and writes no record)
UpClosureNoRecord(db, v, now, fOut, iOut) ==
    LET r1 == StepUp(db, v, fOut) IN
    IF r1.err THEN [db |-> r1.db, err |-> TRUE, kind |-> "forward"]
    ELSE [db |-> r1.db, err |-> FALSE, kind |-> "none"]

\* (a closure that goes on to write the record when the forward action failed)
UpClosureSwallow(db, v, now, fOut, iOut) ==
    LET r1 == StepUp(db, v, fOut)
        r2 == Create(r1.db, Migration(v, now), iOut) IN
    IF r2.err THEN [db |-> r2.db, err |-> TRUE, kind |-> "insert"]
    ELSE [db |-> r2.db, err |-> FALSE, kind |-> "none"]

\* (a closure that records another version than the step's)
UpClosureOtherVersion(db, v, now, fOut, iOut) ==
    LET r1 == StepUp(db, v, fOut) IN
    IF r1.err THEN [db |-> r1.db, err |-> TRUE, kind |-> "forward"]
    ELSE LET r2 == Create(r1.db, Migration(v + 1, now), iOut) IN
         IF r2.err THEN [db |-> r2.db, err |-> TRUE, kind |-> "insert"]
         ELSE [db |-> r2.db, err |-> FALSE, kind |-> "none"]

\* the closure Up passes to Transaction (migration.go:84-99)
UpClosure(db, v, now, fOut, iOut) ==
    LET r1 == StepUp(db, v, fOut) IN
    IF r1.err THEN [db |-> r1.db, err |-> TRUE, kind |-> "forward"]
    ELSE LET r2 == Create(r1.db, Migration(v, now), iOut) IN
         IF r2.err THEN [db |-> r2.db, err |-> TRUE, kind |-> "insert"]
         ELSE [db |-> r2.db, err |-> FALSE, kind |-> "none"]

\* the closure Down passes to Transaction (migration.go:148-160)
DownClosure(db, rec, bOut, dOut) ==
    LET r1 == StepDown(db, rec.Version, bOut) IN
    IF r1.err THEN [db |-> r1.db, err |-> TRUE, kind |-> "backward"]
    ELSE LET r2 == Delete(r1.db, rec, dOut) IN
         IF r2.err THEN [db |-> r2.db, err |-> TRUE, kind |-> "delete"]
         ELSE [db |-> r2.db, err |-> FALSE, kind |-> "none"]

\* time.Now(): the values the next reading of the clock can return
Now == {t \in clock..(clock + 1) : t <= MaxClock}

\* ---- queries ----

\* (an executedMap that was never filled)
ExecutedVersionsNone(rs) == {}

\* executedMap of Up: the versions of the rows read by Find
ExecutedVersions(rs) == {r.Version : r \in rs}

\* (Order("executed_at asc"): a row with the least executed_at)
LastMigrationsOldest(rs) == {r \in rs : \A q \in rs : r.ExecutedAt <= q.ExecutedAt}

\* Order("executed_at desc").First: a row with the greatest executed_at;
\* which one among equal timestamps is left to the store
LastMigrations(rs) == {r \in rs : \A q \in rs : q.ExecutedAt <= r.ExecutedAt}

\* (a search that falls back on the last registered step)
FindStepFallback(ms, v) ==
    IF \E i \in 1..Len(ms) : ms[i].Version = v
    THEN CHOOSE i \in 1..Len(ms) :
            /\ ms[i].Version = v
            /\ \A j \in 1..(i-1) : ms[j].Version # v
    ELSE Len(ms)

\* the loop of Down that finds the step: the first registered step with the
\* version, 0 if there is none
FindStep(ms, v) ==
    IF \E i \in 1..Len(ms) : ms[i].Version = v
    THEN CHOOSE i \in 1..Len(ms) :
            /\ ms[i].Version = v
            /\ \A j \in 1..(i-1) : ms[j].Version # v
    ELSE 0

\* exec.ExecutedAt.Format("2006-01-02 15:04:05"): the timestamp cut to whole seconds
Format(t) == t \div TicksPerSecond

\* the `executed` map of Status, looked up for one version
Executed(rs, v) == CHOOSE r \in rs : r.Version = v

\* (a line that reports an executed step without reading its timestamp)
StatusLineNoTimestamp(rs, step) ==
    IF \E r \in rs : r.Version = step.Version
    THEN [version |-> step.Version, status |-> "Executed", executedAt |-> 0]
    ELSE [version |-> step.Version, status |-> "Pending", executedAt |-> -1]

\* one row of the table Status prints
StatusLine(rs, step) ==
    IF \E r \in rs : r.Version = step.Version
    THEN [version |-> step.Version, status |-> "Executed",
          executedAt |-> Format(Executed(rs, step.Version).ExecutedAt)]
    ELSE [version |-> step.Version, status |-> "Pending", executedAt |-> -1]

\* ---- the shipped steps (versions/001, 002, 003) ----

\* a database without the users table
NoSchema == [users |-> FALSE, indexes |-> {}, admin |-> "absent"]

\* models.RoleAdmin and the email of the seeded user
RoleAdmin == "admin"
AdminEmail == "admin@company.com"

\* the indexes AutoMigrate creates for the `index` tags of models.User
AutoMigrateIndexes ==
    {"idx_users_email", "idx_users_role", "idx_users_is_active", "idx_users_deleted_at"}

\* the indexes 002 creates
CreatedIndexes == {"idx_users_email", "idx_users_is_active", "idx_users_is_active_role"}

\* the indexes 002 means to drop, in the order of its loop
DroppedIndexes ==
    <<"idx_users_email", "idx_users_role", "idx_users_is_active", "idx_users_is_active_role">>

\* gorm's Exec(sql, values...): each "?" of the statement, written as a
\* sequence of words, is replaced by the next value; any other word is sent as
\* it is
RECURSIVE Bind(_, _)
Bind(sql, values) ==
    IF sql = <<>> THEN <<>>
    ELSE IF Head(sql) = "?" /\ values # <<>>
         THEN <<Head(values)>> \o Bind(Tail(sql), Tail(values))
         ELSE <<Head(sql)>> \o Bind(Tail(sql), values)

\* DROP INDEX IF EXISTS <name>: the store rejects a statement whose last word
\* is not a name
ExecDropIndex(s, stmt) ==
    IF stmt[Len(stmt)] \in {"%s", "?"}
    THEN [schema |-> s, err |-> TRUE]
    ELSE [schema |-> [s EXCEPT !.indexes = @ \ {stmt[Len(stmt)]}], err |-> FALSE]

\* the loop of 002's Down over the first n names: it returns at the first error
RECURSIVE DropIndexes(_, _)
DropIndexes(s, n) ==
    IF n = 0 THEN [schema |-> s, err |-> FALSE]
    ELSE LET r == DropIndexes(s, n - 1) IN
         IF r.err THEN r
         ELSE ExecDropIndex(r.schema,
                            Bind(<<"DROP", "INDEX", "IF", "EXISTS", "%s">>,
                                 <<DroppedIndexes[n]>>))

\* Count of the users with this email that are not soft-deleted
CountByEmail(s, email) == IF s.admin = "live" /\ email = AdminEmail THEN 1 ELSE 0

\* tx.Create(&adminUser): email is unique, soft-deleted rows included
CreateAdmin(s) ==
    IF s.admin # "absent"
    THEN [schema |-> s, err |-> TRUE]
    ELSE [schema |-> [s EXCEPT !.admin = "live"], err |-> FALSE]

\* the Up of the shipped step with version v, run on s
ShippedUp(s, v) ==
    CASE v = 1 -> [schema |-> [s EXCEPT !.users = TRUE,
                                        !.indexes = @ \cup AutoMigrateIndexes],
                   err |-> FALSE]
      [] v = 2 -> IF ~s.users THEN [schema |-> s, err |-> TRUE]
                  ELSE [schema |-> [s EXCEPT !.indexes = @ \cup CreatedIndexes],
                        err |-> FALSE]
      [] OTHER -> IF ~s.users THEN [schema |-> s, err |-> TRUE]
                  ELSE IF CountByEmail(s, RoleAdmin) > 0
                       THEN [schema |-> s, err |-> FALSE]
                       ELSE CreateAdmin(s)

\* the Down of the shipped step with version v, run on s; models.User has a
\* DeletedAt, so Delete only marks the row
ShippedDown(s, v) ==
    CASE v = 1 -> [schema |-> NoSchema, err |-> FALSE]
      [] v = 2 -> DropIndexes(s, Len(DroppedIndexes))
      [] OTHER -> IF ~s.users THEN [schema |-> s, err |-> TRUE]
                  ELSE [schema |-> [s EXCEPT !.admin = IF @ = "live" THEN "deleted" ELSE @],
                        err |-> FALSE]

\* ---- the API: tokens, the JWTAuth middleware, the auth service ----

UserIDs == {1, 2}

Subjects == {"access_token", "refresh_token"}

\* a token: the claims the code reads, and whether ParseWithClaims accepts it
\* (signed with the server's secret and not expired)
Tokens == [UserID : UserIDs, Subject : Subjects, Valid : BOOLEAN]

\* generateAccessToken
generateAccessToken(u) == [UserID |-> u, Subject |-> "access_token", Valid |-> TRUE]

\* generateRefreshToken
generateRefreshToken(u) == [UserID |-> u, Subject |-> "refresh_token", Valid |-> TRUE]

\* generateTokenResponse
generateTokenResponse(u) == {generateAccessToken(u), generateRefreshToken(u)}

\* what a client can present: a token the service signed, or one that
\* ParseWithClaims rejects
Presentable == issued \cup {t \in Tokens : ~t.Valid}

\* userRepo.GetByID / GetByEmail: a row that is there and not soft-deleted
Found(us, u) == us[u] \in {"active", "inactive"}

NoReq == [op |-> "None", token |-> generateAccessToken(1), userState |-> "none",
          admitted |-> FALSE, status |-> 0, user |-> 0, tokens |-> {}]

\* (a middleware that does not look at the subject)
JWTAuthAnySubject(t) ==
    IF ~t.Valid
    THEN [admitted |-> FALSE, status |-> 401, keys |-> {}]
    ELSE [admitted |-> TRUE, status |-> 0,
          keys |-> {"user_id", "user_email", "user_role", "jwt_claims"}]

\* JWTAuth on a request with the header "Bearer <t>": the keys it sets in the
\* context ("user_id" holds t.UserID), or the 401 it answers
JWTAuth(t) ==
    IF ~t.Valid
    THEN [admitted |-> FALSE, status |-> 401, keys |-> {}]
    ELSE IF t.Subject # "access_token"
    THEN [admitted |-> FALSE, status |-> 401, keys |-> {}]
    ELSE [admitted |-> TRUE, status |-> 0,
          keys |-> {"user_id", "user_email", "user_role", "jwt_claims"}]

\* AuthHandler.GetProfile behind the middleware
GetProfileHandler(keys, t, us) ==
    IF "userID" \notin keys THEN [status |-> 401, user |-> 0]
    ELSE IF ~Found(us, t.UserID) THEN [status |-> 404, user |-> 0]
    ELSE [status |-> 200, user |-> t.UserID]

\* AuthHandler.UpdateProfile behind the middleware
UpdateProfileHandler(keys, t, us) ==
    IF "userID" \notin keys THEN [status |-> 401, user |-> 0]
    ELSE IF ~Found(us, t.UserID) THEN [status |-> 500, user |-> 0]
    ELSE [status |-> 200, user |-> t.UserID]

\* AuthService.RefreshToken: the tokens it returns, or the error
RefreshTokenService(t, us) ==
    IF ~t.Valid THEN [err |-> TRUE, tokens |-> {}]
    ELSE IF t.Subject # "refresh_token" THEN [err |-> TRUE, tokens |-> {}]
    ELSE IF ~Found(us, t.UserID) THEN [err |-> TRUE, tokens |-> {}]
    ELSE [err |-> FALSE, tokens |-> generateTokenResponse(t.UserID)]

\* ---- initial state ----

\* the store a run starts on: a fresh database, or one an earlier run left
\* with an empty ledger or one applied step
InitialStores ==
    {[tableExists |-> FALSE, rows |-> {}, store |-> {}],
     [tableExists |-> TRUE, rows |-> {}, store |-> {}]}
    \cup {[tableExists |-> TRUE, rows |-> {Migration(v, 0)}, store |-> {v}] : v \in Versions}

\* NewMigrator
NewMigrator == <<>>

\* Migrator.Register
Register(ms, step) == Append(ms, step)

\* RegisterMigrations: the Migrator after the steps of `list` were registered in order
RECURSIVE RegisterMigrations(_)
RegisterMigrations(list) ==
    IF list = <<>> THEN NewMigrator
    ELSE Register(RegisterMigrations(SubSeq(list, 1, Len(list) - 1)),
                  MigrationStep(list[Len(list)]))

Init ==
    /\ \E list \in Registrations : migrations = RegisterMigrations(list)
    /\ \E s \in InitialStores :
          /\ tableExists = s.tableExists
          /\ rows = s.rows
          /\ store = s.store
    /\ clock = 0
    /\ pc = "idle"
    /\ executedMap = {}
    /\ idx = 0
    /\ cur = NoOp
    /\ last = NoOp
    /\ prev = Brief(NoOp)
    /\ ops = 0
    /\ other = [pc |-> "idle", executedMap |-> {}, idx |-> 0, cur |-> NoOp]
    /\ flags = {}
    /\ stdin = <<>>
    /\ response = <<>>
    /\ phase = "none"
    /\ exitCode = 0
    /\ start = [ops |-> 0, db |-> NoOp.before]
    /\ schema = NoSchema
    /\ users = [u \in UserIDs |-> "none"]
    /\ issued = {}
    /\ req = NoReq

\* ---- operations ----

Returns(rec) ==
    /\ last' = rec
    /\ prev' = Brief(last)

\* Up, lines 54-75: Initialize, read the ledger, build executedMap
UpEnter(rs) ==
    /\ tableExists' = TRUE
    /\ executedMap' = ExecutedVersions(rs)
    /\ idx' = 1
    /\ pc' = "up"

UpBegin ==
    /\ pc = "idle"
    /\ ops < MaxOps
    /\ ops' = ops + 1
    /\ UpEnter(rows)
    /\ cur' = [NoOp EXCEPT !.op = "Up", !.before = Snapshot]
    /\ UNCHANGED <<migrations, rows, store, clock, last, prev>>

\* Up, lines 77-79: the step is in executedMap
UpSkip ==
    /\ pc = "up"
    /\ idx <= Len(migrations)
    /\ migrations[idx].Version \in executedMap
    /\ idx' = idx + 1
    /\ UNCHANGED <<migrations, tableExists, rows, store, clock, pc, executedMap, cur, last, prev, ops>>

\* Up, lines 81-106: one pending step in its transaction
UpStep ==
    /\ pc = "up"
    /\ idx <= Len(migrations)
    /\ migrations[idx].Version \notin executedMap
    /\ \E fOut \in ActionOutcomes, iOut \in WriteOutcomes, now \in Now :
        LET res   == UpClosure(DB, migrations[idx].Version, now, fOut, iOut)
            after == Transaction(DB, res)
            kind  == IF fOut # "ok" THEN "forward" ELSE res.kind
            first == kind # "none" /\ cur.failIdx = 0
            rec   == [cur EXCEPT !.calls = Append(@, [kind |-> "Up", step |-> idx]),
                                 !.txs = @ + 1,
                                 !.failIdx = IF first THEN idx ELSE @,
                                 !.failKind = IF first THEN kind ELSE @,
                                 !.txBefore = IF first THEN DB ELSE @]
        IN
        /\ rows' = after.rows
        /\ store' = after.store
        /\ clock' = IF fOut = "ok" THEN now ELSE clock
        /\ IF res.err
           THEN /\ Returns([rec EXCEPT !.err = TRUE])
                /\ pc' = "idle"
                /\ idx' = 0
                /\ executedMap' = {}
                /\ cur' = NoOp
           ELSE /\ idx' = idx + 1
                /\ cur' = rec
                /\ UNCHANGED <<pc, executedMap, last, prev>>
    /\ UNCHANGED <<migrations, tableExists, ops>>

\* Up, lines 109-115: the loop is over
UpReturn ==
    /\ pc = "up"
    /\ idx > Len(migrations)
    /\ Returns(cur)
    /\ pc' = "idle"
    /\ idx' = 0
    /\ executedMap' = {}
    /\ cur' = NoOp
    /\ UNCHANGED <<migrations, tableExists, rows, store, clock, ops>>

\* Migrator.Down
Down ==
    /\ pc = "idle"
    /\ ops < MaxOps
    /\ ops' = ops + 1
    /\ LET base == [NoOp EXCEPT !.op = "Down", !.before = Snapshot] IN
       IF ~tableExists
       THEN \* the query fails: "failed to fetch last migration"
            /\ Returns([base EXCEPT !.err = TRUE, !.failKind = "query"])
            /\ UNCHANGED <<rows, store>>
       ELSE IF rows = {}
       THEN \* gorm.ErrRecordNotFound: nothing to roll back
            /\ Returns(base)
            /\ UNCHANGED <<rows, store>>
       ELSE \E lastMigration \in LastMigrations(rows) :
            LET k == FindStep(migrations, lastMigration.Version) IN
            IF k = 0
            THEN \* "migration step not found for version"
                 /\ Returns([base EXCEPT !.err = TRUE, !.failKind = "notfound",
                                         !.selected = lastMigration.Version])
                 /\ UNCHANGED <<rows, store>>
            ELSE \E bOut \in ActionOutcomes, dOut \in WriteOutcomes :
                 LET res   == DownClosure(DB, lastMigration, bOut, dOut)
                     after == Transaction(DB, res)
                     kind  == IF bOut # "ok" THEN "backward" ELSE res.kind
                 IN
                 /\ rows' = after.rows
                 /\ store' = after.store
                 /\ Returns([base EXCEPT !.err = res.err, !.failKind = kind,
                                         !.failIdx = IF kind # "none" THEN k ELSE 0,
                                         !.calls = <<[kind |-> "Down", step |-> k]>>,
                                         !.txs = 1, !.txBefore = DB,
                                         !.selected = lastMigration.Version])
    /\ UNCHANGED <<migrations, tableExists, clock, pc, executedMap, idx, cur>>

\* (a Status that creates the migrations table before reading it)
StatusInitializes ==
    /\ pc = "idle"
    /\ ops < MaxOps
    /\ ops' = ops + 1
    /\ tableExists' = TRUE
    /\ Returns([NoOp EXCEPT !.op = "Status", !.before = Snapshot,
                            !.report = [i \in 1..Len(migrations) |->
                                           StatusLine(rows, migrations[i])]])
    /\ UNCHANGED <<migrations, rows, store, clock, pc, executedMap, idx, cur>>

\* Migrator.Status
Status ==
    /\ pc = "idle"
    /\ ops < MaxOps
    /\ ops' = ops + 1
    /\ LET base == [NoOp EXCEPT !.op = "Status", !.before = Snapshot] IN
       IF ~tableExists
       THEN \* the query fails: "failed to fetch executed migrations"
            Returns([base EXCEPT !.err = TRUE, !.failKind = "query"])
       ELSE Returns([base EXCEPT !.report =
                        [i \in 1..Len(migrations) |-> StatusLine(rows, migrations[i])]])
    /\ UNCHANGED <<migrations, tableExists, rows, store, clock, pc, executedMap, idx, cur>>

\* (a DropTable that leaves the rows in place)
DropTableKeepsRows(rs) == rs

\* m.db.Migrator().DropTable(&Migration{}): the rows of the table after the
\* drop and the Initialize that follows in Up
DropTable(rs) == {}

\* (a Reset that also drops what the forward actions produced)
ResetDropsAll ==
    /\ pc = "idle"
    /\ ops < MaxOps
    /\ ops' = ops + 1
    /\ rows' = DropTable(rows)
    /\ store' = {}
    /\ UpEnter(DropTable(rows))
    /\ cur' = [NoOp EXCEPT !.op = "Reset", !.before = Snapshot]
    /\ UNCHANGED <<migrations, clock, last, prev>>

\* Migrator.Reset: drop the migrations table, then Up
Reset ==
    /\ pc = "idle"
    /\ ops < MaxOps
    /\ ops' = ops + 1
    /\ rows' = DropTable(rows)
    /\ UpEnter(DropTable(rows))
    /\ cur' = [NoOp EXCEPT !.op = "Reset", !.before = Snapshot]
    /\ UNCHANGED <<migrations, store, clock, last, prev>>

\* the operations of one Migrator, called one after the other
Next ==
    \/ UpBegin /\ UNCHANGED <<ext, other, cli>>
    \/ UpSkip /\ UNCHANGED <<ext, other, cli>>
    \/ UpStep /\ UNCHANGED <<ext, other, cli>>
    \/ UpReturn /\ UNCHANGED <<ext, other, cli>>
    \/ Down /\ UNCHANGED <<ext, other, cli>>
    \/ Status /\ UNCHANGED <<ext, other, cli>>
    \/ Reset /\ UNCHANGED <<ext, other, cli>>

Spec == Init /\ [][Next]_vars

\* the runs that start on a store whose Ledger holds no record
InitEmpty == Init /\ rows = {}
SpecEmpty == InitEmpty /\ [][Next]_vars

\* Up and Down only, on a store nothing was applied to
InitEmptyStore == Init /\ rows = {} /\ store = {}

NextUpDown ==
    \/ UpBegin /\ UNCHANGED <<ext, other, cli>>
    \/ UpSkip /\ UNCHANGED <<ext, other, cli>>
    \/ UpStep /\ UNCHANGED <<ext, other, cli>>
    \/ UpReturn /\ UNCHANGED <<ext, other, cli>>
    \/ Down /\ UNCHANGED <<ext, other, cli>>

SpecUpDown == InitEmptyStore /\ [][NextUpDown]_vars

\* ---- the shipped registry ----

\* a step of Up in which the forward action is the shipped one
ShippedUpStep ==
    /\ UpStep
    /\ LET r == ShippedUp(schema, migrations[idx].Version) IN
       /\ r.err <=> (pc' = "idle" /\ last'.failKind = "forward")
       /\ schema' = IF pc' = "up" THEN r.schema ELSE schema

\* a Down in which the backward action is the shipped one
ShippedDownStep ==
    /\ Down
    /\ IF last'.calls = <<>>
       THEN schema' = schema
       ELSE LET r == ShippedDown(schema, migrations[last'.calls[1].step].Version) IN
            /\ r.err <=> last'.failKind = "backward"
            /\ schema' = IF last'.err THEN schema ELSE r.schema

\* the operations of the Migrator of registry.go
NextShipped ==
    \/ UpBegin /\ UNCHANGED <<ext, other, cli>>
    \/ UpSkip /\ UNCHANGED <<ext, other, cli>>
    \/ ShippedUpStep /\ UNCHANGED <<other, cli, api>>
    \/ UpReturn /\ UNCHANGED <<ext, other, cli>>
    \/ ShippedDownStep /\ UNCHANGED <<other, cli, api>>
    \/ Reset /\ UNCHANGED <<ext, other, cli>>

\* the registry main builds, on a fresh database
InitShipped ==
    /\ Init
    /\ migrations = RegisterMigrations(<<1, 2, 3>>)
    /\ ~tableExists

SpecShipped == InitShipped /\ [][NextShipped]_vars

\* ---- the API server ----

engine == <<migrations, tableExists, rows, store, clock, pc, executedMap, idx,
            cur, last, prev, ops, other, cli, schema>>

\* POST /auth/register
RegisterUser ==
    /\ \E u \in UserIDs :
          /\ users[u] = "none"
          /\ users' = [users EXCEPT ![u] = "active"]
          /\ req' = [NoReq EXCEPT !.op = "Register", !.userState = "none",
                                  !.status = 201, !.user = u]
    /\ UNCHANGED <<engine, issued>>

\* POST /auth/login with the email of user u
LoginUser ==
    /\ \E u \in UserIDs, passwordOk \in BOOLEAN :
          LET ok == Found(users, u) /\ users[u] = "active" /\ passwordOk IN
          /\ issued' = IF ok THEN issued \cup generateTokenResponse(u) ELSE issued
          /\ req' = [NoReq EXCEPT !.op = "Login", !.userState = users[u],
                                  !.status = IF ok THEN 200 ELSE 401,
                                  !.user = IF ok THEN u ELSE 0,
                                  !.tokens = IF ok THEN generateTokenResponse(u) ELSE {}]
    /\ UNCHANGED <<engine, users>>

\* userRepo.UpdateUserStatus(id, false)
DeactivateUser ==
    /\ \E u \in UserIDs :
          /\ users[u] = "active"
          /\ users' = [users EXCEPT ![u] = "inactive"]
    /\ UNCHANGED <<engine, issued, req>>

\* userRepo.Delete(id)
DeleteUser ==
    /\ \E u \in UserIDs :
          /\ Found(users, u)
          /\ users' = [users EXCEPT ![u] = "deleted"]
    /\ UNCHANGED <<engine, issued, req>>

\* POST /auth/refresh
RefreshTokenRequest ==
    /\ \E t \in Presentable :
          LET r == RefreshTokenService(t, users) IN
          /\ issued' = issued \cup r.tokens
          /\ req' = [NoReq EXCEPT !.op = "RefreshToken", !.token = t,
                                  !.userState = users[t.UserID],
                                  !.status = IF r.err THEN 401 ELSE 200,
                                  !.user = IF r.err THEN 0 ELSE t.UserID,
                                  !.tokens = r.tokens]
    /\ UNCHANGED <<engine, users>>

\* GET /auth/profile
GetProfileRequest ==
    /\ \E t \in Presentable :
          LET m == JWTAuth(t)
              h == GetProfileHandler(m.keys, t, users)
          IN
          req' = [NoReq EXCEPT !.op = "GetProfile", !.token = t,
                               !.userState = users[t.UserID],
                               !.admitted = m.admitted,
                               !.status = IF m.admitted THEN h.status ELSE m.status,
                               !.user = IF m.admitted THEN h.user ELSE 0]
    /\ UNCHANGED <<engine, users, issued>>

\* PUT /auth/profile
UpdateProfileRequest ==
    /\ \E t \in Presentable :
          LET m == JWTAuth(t)
              h == UpdateProfileHandler(m.keys, t, users)
          IN
          req' = [NoReq EXCEPT !.op = "UpdateProfile", !.token = t,
                               !.userState = users[t.UserID],
                               !.admitted = m.admitted,
                               !.status = IF m.admitted THEN h.status ELSE m.status,
                               !.user = IF m.admitted THEN h.user ELSE 0]
    /\ UNCHANGED <<engine, users, issued>>

NextAPI ==
    \/ RegisterUser
    \/ LoginUser
    \/ DeactivateUser
    \/ DeleteUser
    \/ RefreshTokenRequest
    \/ GetProfileRequest
    \/ UpdateProfileRequest

\* the server, started on a database with no user
InitAPI == Init /\ migrations = <<>> /\ ~tableExists

SpecAPI == InitAPI /\ [][NextAPI]_vars

\* ---- two Migrators on one store ----

\* the scheduler runs the other process: its call in progress takes the
\* place of the running one (statements of a transaction are not interleaved:
\* the store serialises the two transactions on the unique index)
Switch ==
    /\ other' = [pc |-> pc, executedMap |-> executedMap, idx |-> idx, cur |-> cur]
    /\ pc' = other.pc
    /\ executedMap' = other.executedMap
    /\ idx' = other.idx
    /\ cur' = other.cur
    /\ UNCHANGED <<migrations, tableExists, rows, store, clock, last, prev, ops, cli, ext>>

\* two processes that both run `migrate -up`
NextConc ==
    \/ UpBegin /\ UNCHANGED <<ext, other, cli>>
    \/ UpSkip /\ UNCHANGED <<ext, other, cli>>
    \/ UpStep /\ UNCHANGED <<ext, other, cli>>
    \/ UpReturn /\ UNCHANGED <<ext, other, cli>>
    \/ Switch

SpecConc == Init /\ [][NextConc]_vars

\* ---- two concurrent Down ----

\* Down, lines 122-143: the query for the last record and the search of its
\* step; Down goes on to its transaction when both are found
DownBegin ==
    /\ pc = "idle"
    /\ ops < MaxOps
    /\ ops' = ops + 1
    /\ LET base == [NoOp EXCEPT !.op = "Down", !.before = Snapshot] IN
       IF ~tableExists
       THEN /\ Returns([base EXCEPT !.err = TRUE, !.failKind = "query"])
            /\ UNCHANGED <<pc, idx, cur>>
       ELSE IF rows = {}
       THEN /\ Returns(base)
            /\ UNCHANGED <<pc, idx, cur>>
       ELSE \E lastMigration \in LastMigrations(rows) :
            LET k == FindStep(migrations, lastMigration.Version) IN
            IF k = 0
            THEN /\ Returns([base EXCEPT !.err = TRUE, !.failKind = "notfound",
                                         !.selected = lastMigration.Version])
                 /\ UNCHANGED <<pc, idx, cur>>
            ELSE /\ pc' = "down"
                 /\ idx' = k
                 /\ cur' = [base EXCEPT !.selected = lastMigration.Version]
                 /\ UNCHANGED <<last, prev>>
    /\ UNCHANGED <<migrations, tableExists, rows, store, clock, executedMap>>

\* the record Down read at lines 123-124
lastMigrationRead == CHOOSE r \in cur.before.rows : r.Version = cur.selected

\* Down, lines 147-167: the transaction (backward action, delete of the
\* record read before) and the return
DownCommit ==
    /\ pc = "down"
    /\ \E bOut \in ActionOutcomes, dOut \in WriteOutcomes :
          LET res   == DownClosure(DB, lastMigrationRead, bOut, dOut)
              after == Transaction(DB, res)
              kind  == IF bOut # "ok" THEN "backward" ELSE res.kind
          IN
          /\ rows' = after.rows
          /\ store' = after.store
          /\ Returns([cur EXCEPT !.err = res.err, !.failKind = kind,
                                 !.failIdx = IF kind # "none" THEN idx ELSE 0,
                                 !.calls = <<[kind |-> "Down", step |-> idx]>>,
                                 !.txs = 1, !.txBefore = DB])
    /\ pc' = "idle"
    /\ idx' = 0
    /\ cur' = NoOp
    /\ UNCHANGED <<migrations, tableExists, clock, executedMap, ops>>

\* two processes that both run `migrate -down`
NextConcDown ==
    \/ DownBegin /\ UNCHANGED <<ext, other, cli>>
    \/ DownCommit /\ UNCHANGED <<ext, other, cli>>
    \/ Switch

SpecConcDown == Init /\ [][NextConcDown]_vars

\* ---- cmd/migrate ----

\* Migrator operations the processes run, one per process
MaxRuns == 2

\* what is typed before the newline at the prompt: lines of the characters
\* y, Y, n and the blank " "
ResponseLines ==
    {<<>>, <<"y">>, <<"Y">>, <<"n">>, <<" ">>, <<" ", "Y">>, <<"y", "y">>,
     <<"y", " ", "n">>, <<"n", " ", "y">>}

\* the command lines tried
FlagSets == {{}, {"up"}, {"down"}, {"status"}, {"reset"}, {"create"},
             {"down", "status"}, {"status", "reset"}}

\* the case the switch of main selects: the first that is true
Command(fs) ==
    IF "up" \in fs THEN "up"
    ELSE IF "down" \in fs THEN "down"
    ELSE IF "status" \in fs THEN "status"
    ELSE IF "reset" \in fs THEN "reset"
    ELSE IF "create" \in fs THEN "create"
    ELSE "usage"

\* position of the first character of `line` at or after i that is not a
\* blank (Len(line) + 1 when there is none)
RECURSIVE SkipSpace(_, _)
SkipSpace(line, i) ==
    IF i > Len(line) \/ line[i] # " " THEN i ELSE SkipSpace(line, i + 1)

\* position after the token that starts at i
RECURSIVE TokenEnd(_, _)
TokenEnd(line, i) ==
    IF i > Len(line) \/ line[i] = " " THEN i ELSE TokenEnd(line, i + 1)

\* fmt.Scanln(&response): leading blanks are skipped and the characters up to
\* the next blank or the newline are stored; what follows on the line makes
\* Scanln return an error, which main does not look at; on a line without
\* token nothing is stored and response keeps its zero value
Scanln(line) ==
    LET a == SkipSpace(line, 1)
        b == TokenEnd(line, a)
    IN  SubSeq(line, a, b - 1)

\* (a comparison that does not fold case)
ToLowerIdentity(str) == str

\* strings.ToLower
ToLower(str) == [i \in 1..Len(str) |-> IF str[i] = "Y" THEN "y" ELSE str[i]]

\* (a process that exits 0 whatever the operation returned)
ExitCodeAlwaysZero(err) == 0

\* log.Fatalf exits with 1; falling off the end of main exits with 0
ExitCode(err) == IF err THEN 1 ELSE 0

\* flag.Parse and the set-up of main, up to the switch
MainStart ==
    /\ phase \in {"none", "exited"}
    /\ pc = "idle"
    /\ ops < MaxRuns
    /\ \E fs \in FlagSets : flags' = fs
    /\ stdin' = <<>>
    /\ response' = <<>>
    /\ phase' = "switch"
    /\ start' = [ops |-> ops, db |-> Snapshot]
    /\ UNCHANGED <<migrations, tableExists, rows, store, clock, ctx, last, prev,
                   ops, ext, other, exitCode>>

\* case *upCmd: migrator.Up() is entered
MainUp ==
    /\ phase = "switch" /\ Command(flags) = "up"
    /\ UpBegin
    /\ phase' = "op"
    /\ UNCHANGED <<ext, other, flags, stdin, response, exitCode, start>>

\* the loop of the Up (or of the Up inside Reset) that main called
MainUpLoop ==
    /\ phase = "op"
    /\ UpSkip \/ UpStep \/ UpReturn
    /\ UNCHANGED <<ext, other, cli>>

\* case *downCmd
MainDown ==
    /\ phase = "switch" /\ Command(flags) = "down"
    /\ Down
    /\ phase' = "op"
    /\ UNCHANGED <<ext, other, flags, stdin, response, exitCode, start>>

\* case *statusCmd
MainStatus ==
    /\ phase = "switch" /\ Command(flags) = "status"
    /\ Status
    /\ phase' = "op"
    /\ UNCHANGED <<ext, other, flags, stdin, response, exitCode, start>>

\* case *resetCmd: the warning is printed and a line is read
MainResetAsk ==
    /\ phase = "switch" /\ Command(flags) = "reset"
    /\ \E line \in ResponseLines :
          /\ stdin' = line
          /\ response' = Scanln(line)
    /\ phase' = "asked"
    /\ UNCHANGED <<migrations, tableExists, rows, store, clock, ctx, last, prev,
                   ops, ext, other, flags, exitCode, start>>

\* case *resetCmd: "Reset cancelled.", os.Exit(0)
MainResetCancel ==
    /\ phase = "asked"
    /\ ToLower(response) # <<"y">>
    /\ exitCode' = 0
    /\ phase' = "exited"
    /\ UNCHANGED <<migrations, tableExists, rows, store, clock, ctx, last, prev,
                   ops, ext, other, flags, stdin, response, start>>

\* case *resetCmd: migrator.Reset() is entered
MainReset ==
    /\ phase = "asked"
    /\ ToLower(response) = <<"y">>
    /\ Reset
    /\ phase' = "op"
    /\ UNCHANGED <<ext, other, flags, stdin, response, exitCode, start>>

\* case *createCmd != "": not implemented, main falls through to its end
MainCreate ==
    /\ phase = "switch" /\ Command(flags) = "create"
    /\ exitCode' = 0
    /\ phase' = "exited"
    /\ UNCHANGED <<migrations, tableExists, rows, store, clock, ctx, last, prev,
                   ops, ext, other, flags, stdin, response, start>>

\* default: flag.Usage(), os.Exit(1)
MainUsage ==
    /\ phase = "switch" /\ Command(flags) = "usage"
    /\ exitCode' = 1
    /\ phase' = "exited"
    /\ UNCHANGED <<migrations, tableExists, rows, store, clock, ctx, last, prev,
                   ops, ext, other, flags, stdin, response, start>>

\* the operation returned: log.Fatalf on an error, else the end of main
MainExit ==
    /\ phase = "op" /\ pc = "idle"
    /\ exitCode' = ExitCode(last.err)
    /\ phase' = "exited"
    /\ UNCHANGED <<migrations, tableExists, rows, store, clock, ctx, last, prev,
                   ops, ext, other, flags, stdin, response, start>>

\* one cmd/migrate process after the other, on the registry of registry.go
NextCLI ==
    \/ MainStart
    \/ MainUp
    \/ MainUpLoop
    \/ MainDown
    \/ MainStatus
    \/ MainResetAsk
    \/ MainResetCancel
    \/ MainReset
    \/ MainCreate
    \/ MainUsage
    \/ MainExit

\* the registry main builds, on a database no step was applied to
InitCLI ==
    /\ Init
    /\ migrations = RegisterMigrations(<<1, 2, 3>>)
    /\ rows = {}

SpecCLI == InitCLI /\ [][NextCLI]_vars

TypeOK ==
    /\ pc \in {"idle", "up", "down"}
    /\ clock \in 0..MaxClock
    /\ ops \in 0..MaxOps
    /\ store \subseteq Versions
    /\ tableExists \in BOOLEAN
    /\ (pc = "idle") = (cur = NoOp)

\* ---- properties ----

N == Len(migrations)

\* the caller's contract on a registration: pairwise distinct versions
UniqueVersions ==
    \A i, j \in 1..N : i # j => migrations[i].Version # migrations[j].Version

\* the operation `name` has just returned and nothing has run since
Returned(name) == pc = "idle" /\ last.op = name

\* the forward actions of steps a..b, each once, in registration order
Forward(a, b) == [i \in 1..(b - a + 1) |-> [kind |-> "Up", step |-> a + i - 1]]

RowsOf(rs, v) == {r \in rs : r.Version = v}

\* C1: for every registration of N steps with pairwise distinct versions, an
\* Up that starts on an empty Ledger and in which nothing fails invokes the
\* N forward actions exactly once each, in registration order, and leaves
\* exactly N records, one per step, whose executedAt values are
\* non-decreasing in registration order.
C1_UpAppliesAllInOrder ==
    (Returned("Up") /\ ~last.err /\ last.before.rows = {} /\ UniqueVersions) =>
        /\ last.calls = Forward(1, N)
        /\ Cardinality(rows) = N
        /\ \A i \in 1..N : Cardinality(RowsOf(rows, migrations[i].Version)) = 1
        /\ \A i, j \in 1..N : i < j =>
              \A r \in RowsOf(rows, migrations[i].Version),
                 q \in RowsOf(rows, migrations[j].Version) :
                    r.ExecutedAt <= q.ExecutedAt

\* three steps registered out of version order were applied to an empty Ledger
C1_Witness ==
    /\ Returned("Up") /\ ~last.err /\ last.before.rows = {}
    /\ migrations = RegisterMigrations(<<3, 1, 2>>)
    /\ last.calls = Forward(1, 3)
    /\ Cardinality(rows) = 3

\* C2: each pending step of Up (called directly or by Reset) is one atomic
\* unit: when its forward action fails, or the forward action succeeds and
\* the insert of its record fails, then after Up has returned the store is
\* what it was before the step's transaction: the Ledger holds no record
\* of the step and the step's effect is not in the store (unless it was
\* there before Up began).
C2_UpStepAtomic ==
    (pc = "idle" /\ last.op \in {"Up", "Reset"} /\ last.failKind \in {"forward", "insert"}) =>
        LET v == migrations[last.failIdx].Version IN
        /\ last.err
        /\ rows = last.txBefore.rows
        /\ store = last.txBefore.store
        /\ UniqueVersions => RowsOf(rows, v) = {}
        /\ (UniqueVersions /\ v \notin last.before.store) => v \notin store

\* the forward action of a step succeeded and the insert of its record failed
C2_Witness ==
    /\ Returned("Up") /\ last.err /\ last.failKind = "insert"
    /\ UniqueVersions
    /\ migrations[last.failIdx].Version \notin store
    /\ RowsOf(rows, migrations[last.failIdx].Version) = {}

\* C3: when the forward action of the k-th registered step fails during an
\* Up that started on an empty Ledger, Up returns an error, the Ledger holds
\* exactly the k-1 records of steps 1..k-1, and the forward actions invoked
\* are those of steps 1..k: none after k.
C3_UpFailureKeepsEarlierSteps ==
    (Returned("Up") /\ last.failKind = "forward" /\ last.before.rows = {}) =>
        LET k == last.failIdx IN
        /\ last.err
        /\ last.calls = Forward(1, k)
        /\ Cardinality(rows) = k - 1
        /\ ExecutedVersions(rows) = {migrations[i].Version : i \in 1..(k - 1)}

\* the forward action of the third of three steps failed
C3_Witness ==
    /\ Returned("Up") /\ last.failKind = "forward" /\ last.before.rows = {}
    /\ N = 3 /\ last.failIdx = 3
    /\ Cardinality(rows) = 2

\* C4: (registrations with distinct versions) the Up that follows an Up that
\* failed at step k invokes no forward action of steps 1..k-1, its first
\* forward action is that of step k, and when it returns without error the
\* Ledger holds one record for every registered step.
C4_UpResumesAtFailedStep ==
    (Returned("Up") /\ prev.op = "Up" /\ prev.err /\ UniqueVersions) =>
        LET k == prev.failIdx IN
        /\ last.calls # <<>>
        /\ last.calls[1] = [kind |-> "Up", step |-> k]
        /\ \A c \in 1..Len(last.calls) : last.calls[c].step >= k
        /\ ~last.err =>
              \A i \in 1..N : Cardinality(RowsOf(rows, migrations[i].Version)) = 1

\* an Up failed at the second of three steps and the next Up completed them
C4_Witness ==
    /\ Returned("Up") /\ prev.op = "Up" /\ prev.err /\ prev.failIdx = 2
    /\ UniqueVersions /\ N = 3
    /\ ~last.err
    /\ last.calls = Forward(2, 3)
    /\ Cardinality(rows) = 3

\* C5: an Up that follows a successful Up invokes no forward action, opens
\* no transaction, writes no record, leaves the Ledger and the store as they
\* were and returns success.
C5_UpIdempotent ==
    (Returned("Up") /\ prev.op = "Up" /\ ~prev.err) =>
        /\ ~last.err
        /\ last.calls = <<>>
        /\ last.txs = 0
        /\ rows = last.before.rows
        /\ store = last.before.store

\* the first Up applied three steps, the second found nothing pending
C5_Witness ==
    /\ Returned("Up") /\ prev.op = "Up" /\ ~prev.err
    /\ N = 3 /\ UniqueVersions
    /\ Cardinality(rows) = 3
    /\ last.calls = <<>> /\ ~last.err

\* the record of the last-registered step is strictly the most recent of rs
LastRegisteredIsLatest(rs) ==
    /\ N >= 1
    /\ \E r \in RowsOf(rs, migrations[N].Version) :
          \A q \in rs \ {r} : q.ExecutedAt < r.ExecutedAt

\* Down removed exactly the records of version v and invoked only the
\* backward action of step k, once
RolledBack(v, k) ==
    /\ RowsOf(last.before.rows, v) # {}
    /\ rows = last.before.rows \ RowsOf(last.before.rows, v)
    /\ last.calls = <<[kind |-> "Down", step |-> k]>>

\* C6, as stated: a Down that follows a successful Up (distinct versions, at
\* least one step) and succeeds removes exactly the record of the
\* last-registered step and invokes that step's backward action exactly once
\* and no other action, whatever the Ledger held before that Up and whatever
\* timestamps the records carry.
C6_DownRemovesLastRegistered ==
    (Returned("Down") /\ ~last.err /\ prev.op = "Up" /\ ~prev.err
        /\ UniqueVersions /\ N >= 1) =>
        RolledBack(migrations[N].Version, N)

\* C6, amended: such a Down removes exactly one record, one whose executedAt
\* is the greatest, and invokes the backward action of that record's step
\* exactly once and no other action; the record is that of the
\* last-registered step when its executedAt is strictly greater than every
\* other record's.
C6_DownRemovesLatest ==
    (Returned("Down") /\ ~last.err /\ prev.op = "Up" /\ ~prev.err
        /\ UniqueVersions /\ N >= 1) =>
        /\ \E r \in last.before.rows :
              /\ \A q \in last.before.rows : q.ExecutedAt <= r.ExecutedAt
              /\ \E k \in 1..N : migrations[k].Version = r.Version
                                 /\ RolledBack(r.Version, k)
        /\ LastRegisteredIsLatest(last.before.rows) =>
              RolledBack(migrations[N].Version, N)

\* after an Up applied three steps at increasing times, Down removed the third
C6_Witness ==
    /\ Returned("Down") /\ ~last.err /\ prev.op = "Up" /\ ~prev.err
    /\ UniqueVersions /\ N = 3
    /\ Cardinality(last.before.rows) = 3
    /\ LastRegisteredIsLatest(last.before.rows)
    /\ RolledBack(migrations[3].Version, 3)
    /\ Cardinality(rows) = 2

\* C7, as stated: Down on a Ledger with no records returns success, invokes
\* no forward or backward action and leaves the store unchanged.
C7_DownOnEmptyLedger ==
    (Returned("Down") /\ last.before.rows = {}) =>
        /\ ~last.err
        /\ last.calls = <<>>
        /\ rows = last.before.rows
        /\ store = last.before.store

\* C7, where the migrations table exists: Down on a table with no rows
\* returns success, invokes no action, opens no transaction and leaves the
\* store unchanged.
C7_DownOnEmptyTable ==
    (Returned("Down") /\ last.before.tableExists /\ last.before.rows = {}) =>
        /\ ~last.err
        /\ last.calls = <<>>
        /\ last.txs = 0
        /\ rows = {}
        /\ store = last.before.store
        /\ tableExists

\* Down ran on a store whose migrations table was never created
C7_FreshStore ==
    /\ Returned("Down")
    /\ ~last.before.tableExists
    /\ last.err

\* C8: when the record Down selects (greatest executedAt) has a version that
\* no registered step has, Down returns an error, invokes no backward
\* action, opens no transaction and leaves the Ledger and the store unchanged.
C8_DownOrphanFails ==
    (Returned("Down") /\ last.selected # 0
        /\ \A i \in 1..N : migrations[i].Version # last.selected) =>
        /\ last.err
        /\ last.calls = <<>>
        /\ last.txs = 0
        /\ rows = last.before.rows
        /\ store = last.before.store

\* Down selected a record whose version none of the registered steps has
C8_Witness ==
    /\ Returned("Down") /\ last.selected # 0
    /\ N >= 1
    /\ \A i \in 1..N : migrations[i].Version # last.selected
    /\ last.err
    /\ RowsOf(rows, last.selected) # {}

\* C9: when the backward action fails, or it succeeds and deleting the
\* record fails, Down returns an error, the record is still in the Ledger
\* and nothing the backward action did is in the store.
C9_DownAtomic ==
    (Returned("Down") /\ last.failKind \in {"backward", "delete"}) =>
        /\ last.err
        /\ rows = last.before.rows
        /\ store = last.before.store
        /\ RowsOf(rows, last.selected) # {}

\* the backward action removed the step's effect and the delete then failed
C9_Witness ==
    /\ Returned("Down") /\ last.failKind = "delete"
    /\ last.err
    /\ last.selected \in store
    /\ RowsOf(rows, last.selected) # {}

\* the lines Status has to print for the rows rs: every registered step once,
\* in registration order, Executed with the recorded executedAt exactly when
\* rs holds a record of its version, Pending otherwise
ReportsLedger(report, rs) ==
    /\ Len(report) = N
    /\ \A i \in 1..N :
          /\ report[i].version = migrations[i].Version
          /\ report[i].status \in {"Executed", "Pending"}
          /\ report[i].status = "Executed" <=> RowsOf(rs, migrations[i].Version) # {}
          /\ \A r \in RowsOf(rs, migrations[i].Version) :
                report[i].executedAt = Format(r.ExecutedAt)

\* C10, as stated: Status reports every registered step exactly once, in
\* registration order, as Executed (with the recorded executedAt) if and
\* only if the Ledger holds a record with the step's version, and as Pending
\* otherwise.
C10_StatusReportsEveryStep ==
    Returned("Status") =>
        /\ ~last.err
        /\ ReportsLedger(last.report, last.before.rows)

\* C10, where the migrations table exists: Status returns success and its
\* report is the one above.
C10_StatusOnExistingTable ==
    (Returned("Status") /\ last.before.tableExists) =>
        /\ ~last.err
        /\ ReportsLedger(last.report, last.before.rows)
        /\ rows = last.before.rows
        /\ store = last.before.store

\* Status after two of three registered steps were applied: two Executed,
\* one Pending
C10_TwoOfThree ==
    /\ Returned("Status") /\ ~last.err
    /\ N = 3 /\ UniqueVersions
    /\ Cardinality(rows) = 2
    /\ last.report[1].status = "Executed"
    /\ last.report[2].status = "Executed"
    /\ last.report[3].status = "Pending"
    /\ last.report[2].executedAt = 1

\* Status ran on a store whose migrations table was never created
C10_FreshStore ==
    /\ Returned("Status")
    /\ ~last.before.tableExists
    /\ N = 3
    /\ last.err
    /\ last.report = <<>>

\* ---- Status, the registry invariant, orphans, Reset ----

\* the step taken is a call of the operation `name` that returned at once
Calls(name) ==
    /\ pc = "idle" /\ pc' = "idle"
    /\ ops' = ops + 1
    /\ last'.op = name

RegisteredVersions == {migrations[i].Version : i \in 1..N}

\* C11: Status never mutates state: whether it returns an error or not, the
\* Ledger (the table and its rows), the schema/data in the store and the
\* registered list are the same after the call as before, and no forward or
\* backward action is invoked and no transaction opened.
C11_StatusReadOnly ==
    [][Calls("Status") =>
          /\ rows' = rows
          /\ tableExists' = tableExists
          /\ store' = store
          /\ migrations' = migrations
          /\ clock' = clock
          /\ last'.calls = <<>>
          /\ last'.txs = 0]_vars

\* Status returned without error on a store with applied steps, after an Up
C11_Witness ==
    /\ Returned("Status")
    /\ prev.op = "Up"
    /\ ~last.err
    /\ rows # {} /\ store # {}
    /\ rows = last.before.rows /\ store = last.before.store

\* C12: from a store whose Ledger holds no record, with a fixed registered
\* list, after any sequence of Up, Down, Status and Reset (failed ones
\* included, and in the middle of one) every version in the Ledger is the
\* version of a registered step.
C12_LedgerWithinRegistry ==
    ExecutedVersions(rows) \subseteq RegisteredVersions

\* after an Up that failed, a Reset and a Down the Ledger still holds records
C12_Witness ==
    /\ Returned("Down") /\ ~last.err
    /\ prev.op = "Reset"
    /\ ops = 3
    /\ N = 3
    /\ Cardinality(rows) = 2

\* the Ledger held, when the last operation began, a record whose version no
\* registered step has
OrphanBefore == \E r \in last.before.rows : r.Version \notin RegisteredVersions

\* C13, as stated: whenever the Ledger holds an orphaned record, each of Up,
\* Down and Status returns an error instead of completing as if the record
\* were absent.
C13_OrphanAlwaysReported ==
    (pc = "idle" /\ last.op \in {"Up", "Down", "Status"} /\ OrphanBefore) => last.err

\* C13, what the code does: only Down reports an orphaned record, and only
\* when it is the record Down selects.
C13_OrphanReportedByDown ==
    (pc = "idle" /\ last.op \in {"Up", "Down", "Status"} /\ OrphanBefore
        /\ last.failKind \notin {"forward", "insert", "backward", "delete"}) =>
        (last.err <=> (last.op = "Down" /\ last.selected \notin RegisteredVersions))

\* Up and then Status completed on a Ledger that holds an orphaned record
C13_OrphanIgnored ==
    /\ Returned("Status") /\ OrphanBefore /\ ~last.err
    /\ prev.op = "Up" /\ ~prev.err
    /\ N >= 1
    /\ Len(last.report) = N

\* C14: Reset, whatever the Ledger held, drops it and invokes the forward
\* actions of the registered steps in registration order, each once, up to
\* the step that fails if one does; when it returns without error the Ledger
\* holds exactly one record per registered step and nothing else.
C14_ResetReappliesAll ==
    Returned("Reset") =>
        /\ last.calls = Forward(1, IF last.failIdx > 0 THEN last.failIdx ELSE N)
        /\ last.err <=> last.failIdx > 0
        /\ ~last.err =>
              /\ Cardinality(rows) = N
              /\ \A i \in 1..N : Cardinality(RowsOf(rows, migrations[i].Version)) = 1

\* Reset on a Ledger that recorded all three steps ran the three again
C14_Witness ==
    /\ Returned("Reset") /\ ~last.err
    /\ N = 3
    /\ Cardinality(last.before.rows) = 3
    /\ ExecutedVersions(last.before.rows) = RegisteredVersions
    /\ last.calls = Forward(1, 3)
    /\ Cardinality(rows) = 3

BackwardAmong(calls, n, i) ==
    \E c \in 1..n : c <= Len(calls) /\ calls[c] = [kind |-> "Down", step |-> i]

\* C16, as stated: reset is "down then up": the backward action of every
\* applied step is run before the forward actions are run again.
C16_ResetIsDownThenUp ==
    Returned("Reset") =>
        \A i \in 1..N :
            RowsOf(last.before.rows, migrations[i].Version) # {} =>
                \E c \in 1..Len(last.calls) :
                    /\ last.calls[c] = [kind |-> "Down", step |-> i]
                    /\ \A d \in 1..(c - 1) : last.calls[d].kind = "Down"

\* Reset returned on a store where steps had been applied
C16_ResetWithoutDown ==
    /\ Returned("Reset") /\ ~last.err
    /\ N = 3
    /\ Cardinality(last.before.rows) = 3
    /\ \A c \in 1..Len(last.calls) : last.calls[c].kind = "Up"

\* C17, as stated: every operation runs Initialize before it reads or writes
\* the Ledger, so none of them finds the migrations table missing and the
\* table exists once any of them has returned.
C17_InitializeBeforeLedger ==
    (pc = "idle" /\ last.op \in {"Up", "Down", "Status", "Reset"}) =>
        /\ last.failKind # "query"
        /\ tableExists

\* C17, what the code does: Up and Reset run Initialize first; Down and
\* Status read the Ledger as they find it.
C17_OnlyUpInitializes ==
    /\ (pc = "idle" /\ last.op \in {"Up", "Reset"}) =>
          (last.failKind # "query" /\ tableExists)
    /\ (pc = "idle" /\ last.op \in {"Down", "Status"}) =>
          /\ tableExists = last.before.tableExists
          /\ last.failKind = "query" <=> ~last.before.tableExists

\* Down and Status both ran on a store where no Initialize had run
C17_ReadBeforeInitialize ==
    /\ pc = "idle"
    /\ last.op = "Status" /\ last.failKind = "query"
    /\ prev.op = "Down" /\ prev.err
    /\ ~tableExists

\* ---- the command line ----

\* the Migrator operation each command calls
OpOf(c) ==
    CASE c = "up" -> "Up"
      [] c = "down" -> "Down"
      [] c = "status" -> "Status"
      [] c = "reset" -> "Reset"
      [] OTHER -> "None"

\* the process was started with -reset (and no flag that goes before it)
ResetCommand == Command(flags) = "reset" /\ phase \in {"op", "exited"}

\* the process has called Migrator.Reset, and nothing else
ResetEntered ==
    /\ ops = start.ops + 1
    /\ IF pc = "idle" THEN last.op = "Reset" ELSE cur.op = "Reset"

\* the process has exited with code 0 and has left the store as it was
CancelledUnchanged ==
    /\ phase = "exited" /\ exitCode = 0
    /\ pc = "idle"
    /\ ops = start.ops
    /\ Snapshot = start.db

\* the first token of the line is y or Y: blanks only before it, and a blank
\* or the end of the line after it
FirstTokenIsY(line) ==
    \E i \in 1..Len(line) :
        /\ line[i] \in {"y", "Y"}
        /\ \A j \in 1..(i - 1) : line[j] = " "
        /\ i = Len(line) \/ line[i + 1] = " "

\* C18, as stated: the reset command proceeds to Migrator.Reset only when the
\* response typed is exactly the literal y; after every other response the
\* process exits with code 0 and nothing is changed.
C18_ResetOnlyOnLiteralY ==
    ResetCommand =>
        IF stdin = <<"y">> THEN ResetEntered ELSE CancelledUnchanged

\* C18, amended: the reset command proceeds to Migrator.Reset exactly when the
\* first blank-separated token of the response line is y in either case
\* (y, Y, and lines such as " y" or "y n"); after every other response,
\* the empty line included, the process exits with code 0, calls no Migrator
\* operation and changes nothing.
C18_ResetOnFirstTokenY ==
    ResetCommand =>
        IF FirstTokenIsY(stdin) THEN ResetEntered ELSE CancelledUnchanged

\* Reset ran to its end after the response " Y"
C18_Witness ==
    /\ phase = "exited" /\ Command(flags) = "reset"
    /\ stdin = <<" ", "Y">>
    /\ last.op = "Reset" /\ ~last.err
    /\ ops = start.ops + 1
    /\ rows # start.db.rows

\* the process has exited after its command called a Migrator operation
ExitedAfterOperation ==
    /\ phase = "exited"
    /\ Command(flags) \in {"up", "down", "status", "reset"}
    /\ Command(flags) = "reset" => ToLower(response) = <<"y">>

\* C19: a process run with up, down, status or reset (once confirmed) calls
\* that one Migrator operation once, with no retry, and exits with a non-zero
\* code exactly when the operation returned an error: runs that succeed and
\* runs that find nothing to do exit with 0.
C19_ExitCodeReportsError ==
    ExitedAfterOperation =>
        /\ pc = "idle"
        /\ ops = start.ops + 1
        /\ last.op = OpOf(Command(flags))
        /\ last.before = start.db
        /\ exitCode # 0 <=> last.err
        /\ \A c, d \in 1..Len(last.calls) : c # d => last.calls[c] # last.calls[d]

\* a down that succeeded, then an up that failed at a step and exited with 1
C19_Witness ==
    /\ phase = "exited" /\ flags = {"up"}
    /\ last.op = "Up" /\ last.err /\ last.failIdx > 0
    /\ exitCode = 1
    /\ prev.op = "Down" /\ ~prev.err

\* an up with nothing pending exited with 0
C19_NoOpRun ==
    /\ phase = "exited" /\ flags = {"up"}
    /\ last.op = "Up" /\ ~last.err /\ last.calls = <<>>
    /\ exitCode = 0

\* ---- two concurrent Up ----

\* the running Up is at a step it read as pending
AtPendingStep ==
    /\ pc = "up" /\ idx <= N
    /\ migrations[idx].Version \notin executedMap

\* the step the running Up is at was committed, and recorded, by another Up
\* after this one had read the Ledger
CommittedByOther == AtPendingStep /\ RowsOf(rows, migrations[idx].Version) # {}

\* C20: when two concurrent Up both read a step as pending, at most one of
\* the two step transactions commits: the Up that comes second fails on the
\* insert (unique version), its transaction is rolled back whole and it
\* returns an error; and in every reachable state the Ledger holds at most
\* one record per version.
C20_ConcurrentUpOneCommits ==
    /\ [](\A v \in Versions : Cardinality(RowsOf(rows, v)) <= 1)
    /\ [][(CommittedByOther /\ other' = other) =>
              /\ rows' = rows
              /\ store' = store
              /\ pc' = "idle"
              /\ last'.op = cur.op /\ last'.err
              /\ last'.failIdx = idx]_vars

\* both Up read step 1 as pending; one committed it and ran to its end, the
\* other then failed on the insert and left the store as it was
C20_Witness ==
    /\ Returned("Up") /\ last.err /\ last.failKind = "insert"
    /\ UniqueVersions
    /\ last.failIdx = 1
    /\ last.before.rows = {}
    /\ prev.op = "Up" /\ ~prev.err
    /\ rows = last.txBefore.rows /\ store = last.txBefore.store
    /\ Cardinality(rows) = N
    /\ other.pc = "idle"

\* ---- Ledger and store, Down, repeated versions, Reset that fails ----

\* C21: from a store nothing was applied to, after any sequence of Up and
\* Down, failed ones included (no Reset), in every committed state, the
\* states in the middle of an Up included, the forward effect of a step is
\* in the store exactly when the Ledger holds a record with its version.
C21_LedgerMatchesStore ==
    /\ store = ExecutedVersions(rows)
    /\ \A v \in Versions : Cardinality(RowsOf(rows, v)) <= 1

\* an Up failed at its third step with the schema touched, and a Down that
\* followed failed on its delete: two steps are applied and recorded
C21_Witness ==
    /\ Returned("Down") /\ last.err /\ last.failKind = "delete"
    /\ prev.op = "Up" /\ prev.err /\ prev.failIdx = 3
    /\ Cardinality(rows) = 2
    /\ store = ExecutedVersions(rows)

\* C22: a Down that succeeds on a Ledger with records deletes exactly one
\* record, one whose executedAt is the greatest of all; the one action it
\* invokes is the backward action of the step that has the deleted record's
\* version; every other record is as it was.
C22_DownRollsBackOne ==
    (Returned("Down") /\ ~last.err /\ last.before.rows # {}) =>
        \E r \in last.before.rows :
            /\ rows = last.before.rows \ {r}
            /\ \A q \in last.before.rows : q.ExecutedAt <= r.ExecutedAt
            /\ last.selected = r.Version
            /\ Len(last.calls) = 1
            /\ last.calls[1].kind = "Down"
            /\ last.calls[1].step \in 1..N
            /\ migrations[last.calls[1].step].Version = r.Version
            /\ last.txs = 1

\* Down removed the newest of three records and left the two others
C22_Witness ==
    /\ Returned("Down") /\ ~last.err
    /\ Cardinality(last.before.rows) = 3
    /\ Cardinality(rows) = 2
    /\ rows \subseteq last.before.rows
    /\ \E r \in last.before.rows \ rows : \A q \in rows : q.ExecutedAt < r.ExecutedAt

\* position of the first registered step whose version an earlier step has
\* (0 when the versions are pairwise distinct)
FirstRepeat ==
    IF UniqueVersions THEN 0
    ELSE CHOOSE j \in 1..N :
            /\ \E i \in 1..(j - 1) : migrations[i].Version = migrations[j].Version
            /\ \A k \in 1..(j - 1) :
                  \A i \in 1..(k - 1) : migrations[i].Version # migrations[k].Version

\* C28: Up reads the applied versions once, before its loop: when two
\* registered steps share a version, an Up on a Ledger with no record in
\* which nothing else fails does not skip the second of them; it invokes its
\* forward action, the insert fails on the unique version, the transaction is
\* rolled back and Up returns an error; the Ledger holds one record for each
\* step before the repeated one, one record for that version, and none for a
\* later step.
C28_RepeatedVersionFails ==
    (Returned("Up") /\ last.before.rows = {} /\ FirstRepeat > 0) =>
        /\ last.err
        /\ last.failIdx \in 1..FirstRepeat
        /\ last.failIdx = FirstRepeat =>
              /\ last.calls = Forward(1, FirstRepeat)
              /\ last.failKind \in {"insert", "forward"}
              /\ rows = last.txBefore.rows /\ store = last.txBefore.store
              /\ ExecutedVersions(rows) =
                    {migrations[i].Version : i \in 1..(FirstRepeat - 1)}
              /\ Cardinality(rows) = FirstRepeat - 1
              /\ Cardinality(RowsOf(rows, migrations[FirstRepeat].Version)) = 1

\* steps 1, 2, 1 are registered: Up applied 1 and 2 and failed on the insert
\* of the third
C28_Witness ==
    /\ Returned("Up") /\ last.before.rows = {}
    /\ N = 3 /\ FirstRepeat = 3
    /\ last.err /\ last.failIdx = 3 /\ last.failKind = "insert"
    /\ last.calls = Forward(1, 3)
    /\ Cardinality(rows) = 2

\* C30: Reset is not atomic as a whole: when the forward action of step k
\* fails while Reset runs Up again, Reset returns an error and the Ledger
\* holds exactly the k-1 records of the steps before k, created in this
\* Reset; a record the Ledger held before for step k or a later step is not
\* restored.
C30_ResetFailureKeepsPrefix ==
    (Returned("Reset") /\ last.failKind = "forward") =>
        /\ last.err
        /\ last.failIdx \in 1..N
        /\ Cardinality(rows) = last.failIdx - 1
        /\ ExecutedVersions(rows) = {migrations[i].Version : i \in 1..(last.failIdx - 1)}
        /\ \A r \in last.before.rows :
              r.Version \notin {migrations[i].Version : i \in 1..(last.failIdx - 1)} =>
                  RowsOf(rows, r.Version) = {}

\* the Ledger held three records; Reset failed at step 2 and left one
C30_Witness ==
    /\ Returned("Reset") /\ last.failKind = "forward" /\ last.failIdx = 2
    /\ Cardinality(last.before.rows) = 3
    /\ Cardinality(rows) = 1
    /\ ExecutedVersions(rows) = {migrations[1].Version}

\* ---- the shipped steps ----

\* the records were written at strictly increasing times, in version order
StrictlyOrdered(rs) ==
    \A r, q \in rs : r.Version < q.Version => r.ExecutedAt < q.ExecutedAt

\* C23, as stated: with the shipped registry, after an Up that succeeded,
\* each of the Down commands that follow succeeds and removes one record, in
\* reverse registration order, and an Up after them succeeds and brings the
\* Ledger back to three records (no failure of the store's writes assumed).
C23_ShippedStepsReversible ==
    /\ (Returned("Down") /\ last.before.rows # {}
            /\ StrictlyOrdered(last.before.rows)
            /\ prev.op \in {"Up", "Down"} /\ ~prev.err
            /\ last.failKind # "delete") =>
          /\ ~last.err
          /\ Cardinality(rows) = Cardinality(last.before.rows) - 1
    /\ (Returned("Up") /\ prev.op = "Down" /\ ~prev.err
            /\ last.failKind # "insert") =>
          /\ ~last.err
          /\ Cardinality(rows) = 3

\* after an Up and the Down of 003, the Down of 002 failed in its backward
\* action and the Ledger still holds two records
C23_DownOf002Fails ==
    /\ Returned("Down") /\ last.err /\ last.failKind = "backward"
    /\ last.selected = 2
    /\ StrictlyOrdered(last.before.rows)
    /\ prev.op = "Down" /\ ~prev.err
    /\ schema.admin = "deleted"
    /\ Cardinality(rows) = 2

\* after an Up and the Down of 003, Up failed in the forward action of 003:
\* the row Down marked as deleted still holds the email
C23_ReseedBlocked ==
    /\ Returned("Up") /\ last.err /\ last.failKind = "forward" /\ last.failIdx = 3
    /\ prev.op = "Down" /\ ~prev.err
    /\ schema.admin = "deleted"
    /\ Cardinality(rows) = 2

\* C24, as stated: the forward action of 003, run on a store that holds the
\* seeded admin user, inserts nothing and returns success, so a Reset on a
\* fully migrated store runs it again without error.
C24_SeedChecksBeforeInsert ==
    /\ (schema.users /\ schema.admin = "live") =>
          LET r == ShippedUp(schema, 3) IN ~r.err /\ r.schema = schema
    /\ (Returned("Reset") /\ Cardinality(last.before.rows) = 3
            /\ last.failKind # "insert") => ~last.err

\* Reset on the fully migrated store failed in the forward action of 003
C24_ResetFailsOnSeed ==
    /\ Returned("Reset") /\ last.err
    /\ last.failKind = "forward" /\ last.failIdx = 3
    /\ Cardinality(last.before.rows) = 3
    /\ prev.op = "Up" /\ ~prev.err
    /\ schema.admin = "live"
    /\ Cardinality(rows) = 2

\* ---- the API ----

\* the last request went to a protected profile route
ProfileRequest == req.op \in {"GetProfile", "UpdateProfile"}

\* C25, as stated: a request to a protected profile route that carries a
\* valid access token passes the middleware, and the handler finds the user's
\* ID in the context and answers for that user: it does not reply 401.
C25_ProfileWithValidToken ==
    (ProfileRequest /\ req.token.Valid /\ req.token.Subject = "access_token") =>
        /\ req.admitted
        /\ req.status # 401
        /\ req.userState = "active" => (req.status = 200 /\ req.user = req.token.UserID)

\* C25, what the code does: the middleware admits the request, and the
\* handler, which reads the key "userID" where the middleware wrote "user_id",
\* answers 401 to every request.
C25_ProfileAlwaysUnauthorized ==
    ProfileRequest => (req.status = 401 /\ req.user = 0)

\* an active user logged in, and the profile request with the access token
\* passed the middleware and was answered 401
C25_AdmittedThenUnauthorized ==
    /\ req.op = "GetProfile"
    /\ req.token \in issued
    /\ req.token.Subject = "access_token"
    /\ req.userState = "active"
    /\ req.admitted
    /\ req.status = 401

\* C26, as stated: RefreshToken issues tokens only for a user who exists
\* and is active: with the refresh token of a login, after the user was
\* deactivated or deleted, it returns an error and issues no token.
C26_RefreshRequiresActiveUser ==
    (req.op = "RefreshToken" /\ req.token \in issued
        /\ req.userState \in {"inactive", "deleted"}) =>
        (req.status = 401 /\ req.tokens = {})

\* C26, what the code does: RefreshToken looks the user up and never reads
\* IsActive: a deleted user gets an error, a deactivated one new tokens.
C26_RefreshRequiresExistingUser ==
    (req.op = "RefreshToken" /\ req.token \in issued
        /\ req.token.Subject = "refresh_token") =>
        /\ req.userState = "deleted" => (req.status = 401 /\ req.tokens = {})
        /\ req.userState = "inactive" =>
              (req.status = 200 /\ req.tokens = generateTokenResponse(req.token.UserID))

\* a deactivated user presented the refresh token of its login and got tokens
C26_InactiveUserRefreshed ==
    /\ req.op = "RefreshToken"
    /\ req.token \in issued /\ req.token.Subject = "refresh_token"
    /\ req.userState = "inactive"
    /\ users[req.token.UserID] = "inactive"
    /\ req.status = 200
    /\ req.tokens # {}

\* C27: token types are not interchangeable: the middleware admits a request
\* only with a token whose subject is access_token, and RefreshToken issues
\* tokens only for a token whose subject is refresh_token (both only for
\* tokens that ParseWithClaims accepts).
C27_TokenTypesNotInterchangeable ==
    /\ (ProfileRequest /\ req.admitted) =>
          (req.token.Valid /\ req.token.Subject = "access_token")
    /\ (req.op = "RefreshToken" /\ (req.status = 200 \/ req.tokens # {})) =>
          (req.token.Valid /\ req.token.Subject = "refresh_token")
    /\ \A t \in issued : t.Valid

\* the refresh token of a login was presented to a protected route and the
\* middleware turned it away
C27_Witness ==
    /\ req.op = "GetProfile"
    /\ req.token \in issued
    /\ req.token.Subject = "refresh_token"
    /\ req.userState = "active"
    /\ ~req.admitted
    /\ req.status = 401

\* the access token of a login was presented to RefreshToken and refused
C27_AccessTokenRefused ==
    /\ req.op = "RefreshToken"
    /\ req.token \in issued
    /\ req.token.Subject = "access_token"
    /\ req.userState = "active"
    /\ req.status = 401 /\ req.tokens = {}

\* ---- two concurrent Down ----

\* the step taken is the transaction of a Down, and it commits
DownCommits ==
    /\ pc = "down" /\ pc' = "idle"
    /\ other' = other
    /\ ~last'.err

\* C29, as stated: two concurrent Down never both commit a rollback of the
\* same record: a Down whose delete removes no row does not commit its
\* backward action, so each committed backward action goes with one record
\* of that version deleted.
C29_DownCommitsOnlyWithDelete ==
    [][DownCommits =>
          /\ RowsOf(rows, cur.selected) # {}
          /\ Cardinality(rows') = Cardinality(rows) - 1]_vars

\* C29, what the code does: the second Down finds the record gone, its delete
\* removes nothing without an error, and its transaction commits all the same.
C29_DownCommitsWithoutDelete ==
    [][(DownCommits /\ RowsOf(rows, cur.selected) = {}) =>
          /\ rows' = rows
          /\ last'.calls = <<[kind |-> "Down", step |-> idx]>>
          /\ store' = store \ {cur.selected}]_vars

\* both Down read the same record; one removed it, and the other committed
\* the backward action again with no record left to delete
C29_BothCommitted ==
    /\ Returned("Down") /\ ~last.err
    /\ last.calls # <<>>
    /\ RowsOf(last.before.rows, last.selected) # {}
    /\ RowsOf(last.txBefore.rows, last.selected) = {}
    /\ rows = last.txBefore.rows
    /\ prev.op = "Down" /\ ~prev.err
    /\ other.pc = "idle"
====
